---- MODULE Spec2Model ----
(***************************************************************************)
(* Model of the document chunking and retrieval-ranking pipeline of the    *)
(* PDF question-answering backend (backend/pdf/processor.py,               *)
(* backend/pdf/utils.py, backend/query/routes.py).                         *)
(*                                                                         *)
(* Strings.  A Python str is modelled as a sequence of atoms.  An atom is  *)
(* one whitespace character (SP = ' ', NL = '\n') or a maximal run of n    *)
(* non-whitespace characters (Word(n, p)), p telling whether the run ends  *)
(* in one of the sentence-ending characters . ! ?                          *)
(* str.strip, str.split('\n\n'), re.split(r'(?<=[.!?])\s+') and len only   *)
(* look at whitespace, at the character before a whitespace run and at     *)
(* lengths, so they are computed exactly on this representation.           *)
(***************************************************************************)
EXTENDS Integers, Sequences, FiniteSets, TLC

\* ------------------------------------------------------------------ bounds
MaxAtoms == 5        \* atoms in an input text
MaxWordLen == 3      \* characters in one run of non-whitespace
MaxChunkSize == 4    \* chunk_size ranges over 3..MaxChunkSize
MaxOverlap == 2      \* chunk_overlap ranges over 0..MaxOverlap
MaxMinChunk == 2     \* min_chunk_length ranges over 1..MaxMinChunk
MaxStore == 5        \* chunks in the vector index
MaxShift == 20       \* distance change between two query texts, in hundredths
ScenarioSlots == 5   \* varying slots of the 2400-character text
MaxDocs == 2         \* documents uploaded in one run
MaxChunks == 2       \* chunks extracted from one file
MaxCrashes == 1      \* crashes of the server process in one run
MaxMerged == 10      \* candidates handed to the merge step
MaxReranked == 3     \* results handed to rerank_results
MaxPages == 3        \* pages of a document whose sections are identified
MaxLines == 2        \* lines of a cleaned page

\* ----------------------------------------------------------------- strings
SP == [k |-> "s", n |-> 1, p |-> FALSE]
NL == [k |-> "n", n |-> 1, p |-> FALSE]
Word(n, p) == [k |-> "w", n |-> n, p |-> p]
IsSpace(a) == a.k # "w"

RECURSIVE len(_)
len(s) == IF s = <<>> THEN 0 ELSE Head(s).n + len(Tail(s))

RECURSIVE lstrip(_)
lstrip(s) == IF s # <<>> /\ IsSpace(Head(s)) THEN lstrip(Tail(s)) ELSE s

RECURSIVE rstrip(_)
rstrip(s) ==
    IF s # <<>> /\ IsSpace(s[Len(s)]) THEN rstrip(SubSeq(s, 1, Len(s) - 1)) ELSE s

strip(s) == rstrip(lstrip(s))

\* text.split('\n\n'): leftmost non-overlapping occurrences of two newlines
RECURSIVE split_nn(_, _)
split_nn(s, cur) ==
    IF s = <<>> THEN <<cur>>
    ELSE IF Len(s) >= 2 /\ s[1] = NL /\ s[2] = NL
         THEN <<cur>> \o split_nn(SubSeq(s, 3, Len(s)), <<>>)
         ELSE split_nn(Tail(s), Append(cur, Head(s)))

\* re.split(r'(?<=[.!?])\s+', s): cut at every whitespace run that directly
\* follows a sentence-ending character; the run itself is dropped
RECURSIVE re_split(_, _, _)
re_split(s, cur, afterPunct) ==
    IF s = <<>> THEN <<cur>>
    ELSE IF afterPunct /\ IsSpace(Head(s))
         THEN <<cur>> \o re_split(lstrip(s), <<>>, FALSE)
         ELSE re_split(Tail(s), Append(cur, Head(s)), Head(s).k = "w" /\ Head(s).p)

split_sentences(s) == re_split(s, <<>>, FALSE)

\* ------------------------------------------- PDFProcessor (pdf/processor.py)
\* Loop state of _split_text_into_chunks: chunks and current_chunk are the
\* code's locals; boundaries records, for each pass through the else branch
\* of line 279, the chunk count after the flush, whether a flush happened and
\* the overlap_text that was prepended (history only, never read by the code).
LoopInit == [chunks |-> <<>>, current_chunk |-> <<>>, boundaries |-> <<>>]

\* pack_sentences losing the sentence that did not fit (line 272 resetting
\* the accumulator to the empty string)
RECURSIVE pack_sentences_drop(_, _, _)
pack_sentences_drop(sentences, st, self) ==
    IF sentences = <<>> THEN st
    ELSE LET sentence == Head(sentences) IN
         IF len(st.current_chunk) + len(sentence) + 1 <= self.chunk_size
         THEN pack_sentences_drop(Tail(sentences),
                  [st EXCEPT !.current_chunk = @ \o sentence \o <<SP>>], self)
         ELSE pack_sentences_drop(Tail(sentences),
                  [st EXCEPT !.chunks = IF st.current_chunk # <<>>
                                        THEN Append(@, strip(st.current_chunk))
                                        ELSE @,
                             !.current_chunk = <<>>],
                  self)

\* lines 266-272
RECURSIVE pack_sentences(_, _, _)
pack_sentences(sentences, st, self) ==
    IF sentences = <<>> THEN st
    ELSE LET sentence == Head(sentences) IN
         IF len(st.current_chunk) + len(sentence) + 1 <= self.chunk_size
         THEN pack_sentences(Tail(sentences),
                  [st EXCEPT !.current_chunk = @ \o sentence \o <<SP>>], self)
         ELSE pack_sentences(Tail(sentences),
                  [st EXCEPT !.chunks = IF st.current_chunk # <<>>
                                        THEN Append(@, strip(st.current_chunk))
                                        ELSE @,
                             !.current_chunk = sentence \o <<SP>>],
                  self)

\* lines 289-294: walk the sentences of the last chunk backwards
RECURSIVE overlap_text(_, _, _)
overlap_text(sentences, acc, self) ==
    IF sentences = <<>> THEN acc
    ELSE LET sent == sentences[Len(sentences)] IN
         IF len(acc) + len(sent) <= self.chunk_overlap
         THEN overlap_text(SubSeq(sentences, 1, Len(sentences) - 1),
                           sent \o <<SP>> \o acc, self)
         ELSE acc

\* paragraph_boundary starting the new accumulator without saving the old
\* one (line 281 left out)
paragraph_boundary_noflush(para, st, self) ==
    LET ov == IF st.chunks # <<>> /\ self.chunk_overlap > 0
              THEN overlap_text(split_sentences(st.chunks[Len(st.chunks)]), <<>>, self)
              ELSE <<>>
    IN [chunks |-> st.chunks,
        current_chunk |-> ov \o para \o <<NL, NL>>,
        boundaries |-> Append(st.boundaries,
                              [at |-> Len(st.chunks), flushed |-> FALSE,
                               overlap_text |-> ov,
                               with_overlap |-> st.chunks # <<>> /\ self.chunk_overlap > 0])]

\* lines 279-298: the paragraph does not fit in the accumulator
paragraph_boundary(para, st, self) ==
    LET flushed == st.current_chunk # <<>>
        chunks1 == IF flushed THEN Append(st.chunks, strip(st.current_chunk))
                   ELSE st.chunks
        ov == IF chunks1 # <<>> /\ self.chunk_overlap > 0
              THEN overlap_text(split_sentences(chunks1[Len(chunks1)]), <<>>, self)
              ELSE <<>>
    IN [chunks |-> chunks1,
        current_chunk |-> ov \o para \o <<NL, NL>>,
        boundaries |-> Append(st.boundaries,
                              [at |-> Len(chunks1), flushed |-> flushed,
                               overlap_text |-> ov,
                               with_overlap |-> chunks1 # <<>> /\ self.chunk_overlap > 0])]

\* lines 251-298: one iteration of the loop over the paragraphs
split_paragraph(rawpara, st, self) ==
    LET para == strip(rawpara) IN
    IF para = <<>> THEN st
    ELSE IF len(para) > self.chunk_size
    THEN pack_sentences(split_sentences(para),
                        [st EXCEPT !.chunks = IF st.current_chunk # <<>>
                                              THEN Append(@, st.current_chunk)
                                              ELSE @,
                                   !.current_chunk = <<>>],
                        self)
    ELSE IF len(st.current_chunk) + len(para) + 2 <= self.chunk_size
    THEN [st EXCEPT !.current_chunk = @ \o para \o <<NL, NL>>]
    ELSE paragraph_boundary(para, st, self)

RECURSIVE split_paragraphs(_, _, _)
split_paragraphs(paragraphs, st, self) ==
    IF paragraphs = <<>> THEN st
    ELSE split_paragraphs(Tail(paragraphs),
                          split_paragraph(Head(paragraphs), st, self), self)

\* split_run with the floor test of line 243 off by one (>= for >)
split_run_floor_inclusive(text, self) ==
    IF text = <<>> \/ len(text) <= self.chunk_size
    THEN [chunks |-> IF len(text) >= self.min_chunk_length THEN <<text>> ELSE <<>>,
          current_chunk |-> <<>>, boundaries |-> <<>>]
    ELSE LET st == split_paragraphs(split_nn(text, <<>>), LoopInit, self) IN
         IF st.current_chunk # <<>> /\ len(st.current_chunk) > self.min_chunk_length
         THEN [st EXCEPT !.chunks = Append(@, strip(st.current_chunk))]
         ELSE st

\* lines 238-304, with the history of the run
split_run(text, self) ==
    IF text = <<>> \/ len(text) <= self.chunk_size
    THEN [chunks |-> IF len(text) > self.min_chunk_length THEN <<text>> ELSE <<>>,
          current_chunk |-> <<>>, boundaries |-> <<>>]
    ELSE LET st == split_paragraphs(split_nn(text, <<>>), LoopInit, self) IN
         IF st.current_chunk # <<>> /\ len(st.current_chunk) > self.min_chunk_length
         THEN [st EXCEPT !.chunks = Append(@, strip(st.current_chunk))]
         ELSE st

_split_text_into_chunks(text, self) == split_run(text, self).chunks

\* lines 139-173: one page of the page-based fallback
fallback_page(page_info, st, self) ==
    IF len(st.current_chunk) + len(page_info.text) <= self.chunk_size
    THEN [st EXCEPT !.current_chunk = @ \o <<NL>> \o page_info.text,
                    !.current_page = page_info.page]
    ELSE LET kept == IF st.current_chunk # <<>>
                     THEN Append(st.chunks, [content |-> strip(st.current_chunk),
                                             page |-> st.current_page])
                     ELSE st.chunks
             page_chunks == _split_text_into_chunks(page_info.text, self)
         IN [st EXCEPT !.chunks = kept \o [i \in 1..Len(page_chunks) |->
                                             [content |-> page_chunks[i],
                                              page |-> page_info.page]],
                       !.current_chunk = <<>>]

RECURSIVE fallback_pages(_, _, _)
fallback_pages(page_texts, st, self) ==
    IF page_texts = <<>> THEN st
    ELSE fallback_pages(Tail(page_texts), fallback_page(Head(page_texts), st, self), self)

\* a line of the full text of a document, by what _identify_sections looks
\* at: an empty line, a "[Page n]" line, a line that matches one of the
\* section_patterns (n is the number of a "[Page n]" written inside the
\* heading, 0 when there is none) and any other line
Blank == [kind |-> "blank", n |-> 0]
Marker(page_num) == [kind |-> "marker", n |-> page_num]
Heading(ref) == [kind |-> "heading", n |-> ref]
TextLine == [kind |-> "text", n |-> 0]

\* line 92 and the split of line 201: every page with text adds
\* "\n[Page {page_num}]\n{cleaned}\n" to full_text; cleaned[p] holds the lines
\* of page p, <<>> for a page without text
RECURSIVE full_text_lines(_, _)
full_text_lines(cleaned, page_num) ==
    IF page_num > Len(cleaned) THEN <<Blank>>
    ELSE IF cleaned[page_num] = <<>> THEN full_text_lines(cleaned, page_num + 1)
    ELSE <<Blank, Marker(page_num)>> \o cleaned[page_num]
             \o full_text_lines(cleaned, page_num + 1)

\* lines 231-236: the n of the first "[Page n]" inside the line, 0 for None
_extract_page_number(line) ==
    IF line.kind \in {"marker", "heading"} THEN line.n ELSE 0

\* line 202: the section open before the first heading; line is the place
\* of the section's title line in lines, 0 for this one
Introduction ==
    [title |-> [kind |-> "Introduction", n |-> 0], text |-> <<>>, page |-> 1, line |-> 0]

\* current_section['text'].strip() is not empty
has_content(section) ==
    \E i \in 1..Len(section.text) : section.text[i].kind # "blank"

\* lines 204-223: the loop over the lines from line i on
RECURSIVE identify_loop(_, _, _, _)
identify_loop(lines, i, found, current_section) ==
    IF i > Len(lines)
    THEN IF has_content(current_section) THEN Append(found, current_section) ELSE found
    ELSE IF lines[i].kind = "heading"
         THEN identify_loop(lines, i + 1,
                  IF has_content(current_section) THEN Append(found, current_section)
                  ELSE found,
                  [title |-> lines[i], text |-> <<>>,
                   page |-> IF _extract_page_number(lines[i]) # 0
                            THEN _extract_page_number(lines[i])
                            ELSE current_section.page,
                   line |-> i])
         ELSE identify_loop(lines, i + 1, found,
                  [current_section EXCEPT !.text = Append(@, lines[i])])

\* lines 189-229
_identify_sections(lines) ==
    LET found == identify_loop(lines, 1, <<>>, Introduction) IN
    IF Len(found) > 1 THEN found ELSE <<>>

RECURSIVE section_chunks(_, _)
section_chunks(sections, self) ==
    IF sections = <<>> THEN <<>>
    ELSE LET cs == _split_text_into_chunks(Head(sections).text, self) IN
         [i \in 1..Len(cs) |-> [content |-> cs[i], page |-> Head(sections).page]]
            \o section_chunks(Tail(sections), self)

\* lines 112-187; sections is the result of _identify_sections
_create_intelligent_chunks(sections, page_texts, self) ==
    IF sections # <<>> THEN section_chunks(sections, self)
    ELSE LET st == fallback_pages(page_texts,
                      [chunks |-> <<>>, current_chunk |-> <<>>, current_page |-> 1],
                      self)
         IN IF strip(st.current_chunk) # <<>>
            THEN Append(st.chunks, [content |-> strip(st.current_chunk),
                                    page |-> st.current_page])
            ELSE st.chunks

\* ------------------------------------------------ pdf/utils.py (legacy)
\* ' '.join(sentences)
RECURSIVE join_sp(_)
join_sp(sentences) ==
    IF sentences = <<>> THEN <<>>
    ELSE IF Len(sentences) = 1 THEN Head(sentences)
    ELSE Head(sentences) \o <<SP>> \o join_sp(Tail(sentences))

RECURSIVE sum_len(_)
sum_len(sentences) ==
    IF sentences = <<>> THEN 0 ELSE len(Head(sentences)) + sum_len(Tail(sentences))

\* lines 51-57: the trailing sentences kept as overlap
RECURSIVE overlap_sentences(_, _, _, _)
overlap_sentences(current_chunk, kept, overlap_size, overlap) ==
    IF current_chunk = <<>> THEN kept
    ELSE LET sent == current_chunk[Len(current_chunk)]
             size == overlap_size + len(sent)
         IN IF size >= overlap THEN <<sent>> \o kept
            ELSE overlap_sentences(SubSeq(current_chunk, 1, Len(current_chunk) - 1),
                                   <<sent>> \o kept, size, overlap)

\* lines 44-63
RECURSIVE legacy_loop(_, _, _, _)
legacy_loop(sentences, st, chunk_size, overlap) ==
    IF sentences = <<>> THEN st
    ELSE LET sentence == Head(sentences)
             flush == st.current_size + len(sentence) > chunk_size /\ st.current_chunk # <<>>
             kept == overlap_sentences(st.current_chunk, <<>>, 0, overlap)
             st1 == IF flush
                    THEN [chunks |-> Append(st.chunks, join_sp(st.current_chunk)),
                          current_chunk |-> kept,
                          current_size |-> sum_len(kept)]
                    ELSE st
         IN legacy_loop(Tail(sentences),
                        [st1 EXCEPT !.current_chunk = Append(@, sentence),
                                    !.current_size = @ + len(sentence)],
                        chunk_size, overlap)

\* lines 34-68
split_text_into_chunks(text, chunk_size, overlap) ==
    IF text = <<>> THEN <<>>
    ELSE LET st == legacy_loop(split_sentences(text),
                               [chunks |-> <<>>, current_chunk |-> <<>>, current_size |-> 0],
                               chunk_size, overlap)
         IN IF st.current_chunk # <<>>
            THEN Append(st.chunks, join_sp(st.current_chunk))
            ELSE st.chunks

\* ---- the chunkers as Python calls them: the argument is a str or None
None == [type |-> "NoneType"]
Str(s) == [type |-> "str", value |-> s]

\* processor.py lines 242-243 on any argument: "not text" is true of None,
\* which decides the "or" without the len of line 242; the conditional
\* expression of line 243 then evaluates len(text), a TypeError on None
_split_text_into_chunks_arg(arg, self) ==
    IF arg.type = "NoneType"
    THEN [raised |-> TRUE, chunks |-> <<>>]
    ELSE [raised |-> FALSE, chunks |-> _split_text_into_chunks(arg.value, self)]

\* utils.py lines 36-37 on any argument: "if not text: return []"
split_text_into_chunks_arg(arg, chunk_size, overlap) ==
    IF arg.type = "NoneType"
    THEN [raised |-> FALSE, chunks |-> <<>>]
    ELSE [raised |-> FALSE, chunks |-> split_text_into_chunks(arg.value, chunk_size, overlap)]

\* ------------------------------------------------- query (query/routes.py)
\* Distances are in hundredths: a score s stands for the float s / Scale.
Scale == 100
SIMILARITY_THRESHOLD == 50
RETRIEVAL_K == 8
max_context_length == 4000

\* A document chunk as the vector store returns it.  page_content is the
\* text cut where the code cuts it: head names its first 100 characters,
\* mid its characters 100..199, length is len(page_content).
Doc(head, mid, length, filename, page, pdf_id) ==
    [page_content |-> [head |-> head, mid |-> mid, length |-> length],
     metadata |-> [filename |-> filename, page |-> page, pdf_id |-> pdf_id]]

\* hash(doc.page_content[:100]) and hash(doc.page_content[:200]): equal
\* prefixes hash equally, different prefixes are taken to hash differently
fingerprint100(doc) == doc.page_content.head
fingerprint200(doc) == <<doc.page_content.head, doc.page_content.mid>>

\* len(str(n)) for a page number
DigitsOf(n) == IF n < 10 THEN 1 ELSE IF n < 100 THEN 2 ELSE IF n < 1000 THEN 3 ELSE 4

\* len(f"[Source: {filename}, Page {page}]")
source_info_len(doc) == 9 + doc.metadata.filename.length + 7 + DigitsOf(doc.metadata.page) + 1

\* len(f"{source_info}\n{doc.page_content}\n")
content_with_source_len(doc) == source_info_len(doc) + 1 + doc.page_content.length + 1

\* lines 60-79: the loop of prepare_context; st holds seen_content,
\* context_parts and current_length
RECURSIVE context_loop(_, _, _)
context_loop(results, st, max_length) ==
    IF results = <<>> THEN st
    ELSE LET doc == Head(results).doc
             content_hash == fingerprint100(doc)
         IN IF content_hash \in st.seen_content
            THEN context_loop(Tail(results), st, max_length)
            ELSE IF st.current_length + content_with_source_len(doc) > max_length
            THEN [st EXCEPT !.seen_content = @ \cup {content_hash}]
            ELSE context_loop(Tail(results),
                     [seen_content |-> st.seen_content \cup {content_hash},
                      context_parts |-> Append(st.context_parts,
                                               [doc |-> doc, score |-> Head(results).score,
                                                length |-> content_with_source_len(doc)]),
                      current_length |-> st.current_length + content_with_source_len(doc)],
                     max_length)

\* lines 54-81: the context is kept as the list of its parts; the string is
\* "\n---\n".join(context_parts)
prepare_context(results, max_length) ==
    context_loop(results,
                 [seen_content |-> {}, context_parts |-> <<>>, current_length |-> 0],
                 max_length).context_parts

RECURSIVE SumLengths(_)
SumLengths(parts) == IF parts = <<>> THEN 0 ELSE Head(parts).length + SumLengths(Tail(parts))

\* len("\n---\n".join(context_parts)): the separator has 5 characters
context_len(parts) ==
    IF parts = <<>> THEN 0 ELSE SumLengths(parts) + 5 * (Len(parts) - 1)

Min(a, b) == IF a <= b THEN a ELSE b
Max(a, b) == IF a >= b THEN a ELSE b
FirstN(s, n) == SubSeq(s, 1, Min(n, Len(s)))

\* threshold_filter without the fallback of lines 189-191
threshold_filter_strict(results) ==
    SelectSeq(results, LAMBDA r : r.score <= Scale - SIMILARITY_THRESHOLD)

\* lines 183-191: the similarity-threshold filter and its fallback
threshold_filter(results) ==
    LET filtered == SelectSeq(results, LAMBDA r : r.score <= Scale - SIMILARITY_THRESHOLD)
    IN IF filtered = <<>> THEN FirstN(results, 3) ELSE filtered

\* accessible_pdf_ids with the ownership test of lines 120 and 295 lost
accessible_pdf_ids_public_only(pdfs, current_user) ==
    IF current_user.role = "admin"
    THEN {row.id : row \in {r \in pdfs : r.processing_status = "completed"}}
    ELSE {row.id : row \in {r \in pdfs : /\ r.processing_status = "completed"
                                         /\ r.visibility = "public"}}

\* lines 112-123 and 288-299: the ids of the completed PDFs the caller may see
accessible_pdf_ids(pdfs, current_user) ==
    IF current_user.role = "admin"
    THEN {row.id : row \in {r \in pdfs : r.processing_status = "completed"}}
    ELSE {row.id : row \in {r \in pdfs : /\ r.processing_status = "completed"
                                         /\ (r.user_id = current_user.id
                                             \/ r.visibility = "public")}}

\* ---- the vector store, an external collaborator
\* store is the set of indexed chunks, each with its distance to the question.
Sorted(r) == \A i \in 1..(Len(r) - 1) : r[i].score <= r[i + 1].score
Range(r) == {r[i] : i \in 1..Len(r)}
Distinct(r) == \A i, j \in 1..Len(r) : i # j => r[i] # r[j]

\* the orders in which n of the chunks of S can be returned
Selections(S, n) == {r \in [1..n -> S] : Distinct(r)}

\* the n nearest chunks of S: nothing left out is nearer than something kept
Nearest(S, n) ==
    {r \in Selections(S, n) : \A x \in S \ Range(r) : \A i \in 1..n : r[i].score <= x.score}

\* similarity_search_with_score(query, k, filter): the k nearest chunks that
\* pass the filter, nearest first (ties in any order)
similarity_search_with_score(S, k) ==
    {r \in Nearest(S, Min(k, Cardinality(S))) : Sorted(r)}

\* max_marginal_relevance_search_with_score(query, k, fetch_k, lambda_mult,
\* filter): k chunks re-selected from the fetch_k nearest; the greedy
\* selection starts with the nearest chunk and orders the others by the
\* relevance/diversity trade-off, that is, in any order
max_marginal_relevance_search_with_score(S, k, fetch_k) ==
    {r \in Selections(S, Min(k, Cardinality(S))) :
        /\ \E pool \in Nearest(S, Min(fetch_k, Cardinality(S))) : Range(r) \subseteq Range(pool)
        /\ r # <<>> => \A x \in S : r[1].score <= x.score}

\* the same chunks at the distances of another query text
Shifted(S, shift) == {[doc |-> x.doc, score |-> Max(0, x.score + shift)] : x \in S}

Visible(S, ids) == {x \in S : x.doc.metadata.pdf_id \in ids}

\* lines 220-222: confidence = clamp(1 - average of the first three scores),
\* kept as the fraction num / den
RECURSIVE SumScores(_)
SumScores(r) == IF r = <<>> THEN 0 ELSE Head(r).score + SumScores(Tail(r))

confidence_of(filtered_results) ==
    LET n == Min(3, Len(filtered_results))
        diff == n * Scale - SumScores(FirstN(filtered_results, 3))
    IN [num |-> Max(0, Min(n * Scale, diff)), den |-> n * Scale]

\* lines 224-238: the source list of query_pdfs
RECURSIVE extract_sources(_, _, _)
extract_sources(results, sources, seen_sources) ==
    IF results = <<>> THEN sources
    ELSE LET doc == Head(results).doc
             source_key == <<doc.metadata.filename, doc.metadata.page>>
         IN IF source_key \in seen_sources
            THEN extract_sources(Tail(results), sources, seen_sources)
            ELSE extract_sources(Tail(results),
                     Append(sources,
                            [filename |-> doc.metadata.filename,
                             page |-> doc.metadata.page,
                             score |-> Scale - Head(results).score,
                             excerpt_len |-> IF doc.page_content.length > 200
                                             THEN 203 ELSE doc.page_content.length]),
                     seen_sources \cup {source_key})

\* lines 353-358: the merge by content key, keeping the lower score; the dict
\* unique_results is kept as the list of its values in insertion order
RECURSIVE merge_unique(_, _)
merge_unique(all_results, unique_results) ==
    IF all_results = <<>> THEN unique_results
    ELSE LET r == Head(all_results)
             content_key == fingerprint200(r.doc)
             at == {i \in 1..Len(unique_results) :
                       fingerprint200(unique_results[i].doc) = content_key}
         IN merge_unique(Tail(all_results),
               IF at = {} THEN Append(unique_results, r)
               ELSE LET i == CHOOSE i \in at : TRUE IN
                    IF r.score < unique_results[i].score
                    THEN [unique_results EXCEPT ![i] = r]
                    ELSE unique_results)

\* sorted(values, key=score): a stable insertion sort
RECURSIVE insert_sorted(_, _)
insert_sorted(r, sorted) ==
    IF sorted = <<>> THEN <<r>>
    ELSE IF r.score < Head(sorted).score THEN <<r>> \o sorted
    ELSE <<Head(sorted)>> \o insert_sorted(r, Tail(sorted))

RECURSIVE sorted_by_score(_)
sorted_by_score(values) ==
    IF values = <<>> THEN <<>>
    ELSE insert_sorted(values[Len(values)],
                       sorted_by_score(SubSeq(values, 1, Len(values) - 1)))

\* rank_results without the sort of line 361
rank_results_unsorted(all_results) ==
    FirstN(merge_unique(all_results, <<>>), RETRIEVAL_K)

\* lines 353-361
rank_results(all_results) ==
    FirstN(sorted_by_score(merge_unique(all_results, <<>>)), RETRIEVAL_K)

\* lines 379-387: the source list of advanced_query
advanced_sources(ranked_results) ==
    LET top == FirstN(ranked_results, 5) IN
    [i \in 1..Len(top) |-> [filename |-> top[i].doc.metadata.filename,
                            page |-> top[i].doc.metadata.page,
                            relevance |-> Scale - top[i].score]]

\* set(s.lower().split()) of a string kept as the list of its lowercased words
WordSet(words) == {words[i] : i \in 1..Len(words)}

\* line 46: score * 0.7 + keyword_overlap * 0.3, in hundredths and times
\* 10 * len(query_words), so that the scores of one call compare as integers
combined_score(query_words, r) ==
    7 * r.score * Cardinality(query_words)
        + 3 * Scale * Cardinality(query_words \cap WordSet(r.doc.page_content))

\* no call of rerank_results was made
NotReranked == [raised |-> FALSE, value |-> <<>>]

\* no call of _identify_sections yet
NotIdentified == [called |-> FALSE, value |-> <<>>]

\* lines 36-52: the division of line 43 raises ZeroDivisionError when the
\* query has no word and there is a result; list.sort is stable
rerank_results(query, results) ==
    LET query_words == WordSet(query) IN
    IF results # <<>> /\ query_words = {}
    THEN [raised |-> TRUE, value |-> <<>>]
    ELSE [raised |-> FALSE,
          value |-> sorted_by_score(
                       [i \in 1..Len(results) |->
                           [doc |-> results[i].doc,
                            score |-> combined_score(query_words, results[i])]])]

\* ------------------------------------------------------------------ inputs
Words == {Word(n, TRUE) : n \in 1..MaxWordLen} \cup {Word(1, FALSE)}
Atoms == {SP, NL} \cup Words

\* texts in which no two runs of non-whitespace are adjacent (the
\* representation of a string is then unique)
WellFormed(s) == \A i \in 1..(Len(s) - 1) : IsSpace(s[i]) \/ IsSpace(s[i + 1])
Texts == UNION {{s \in [1..n -> Atoms] : WellFormed(s)} : n \in 0..MaxAtoms}

Configs == [chunk_size : 3..MaxChunkSize,
            chunk_overlap : 0..MaxOverlap,
            min_chunk_length : 1..MaxMinChunk]

\* a page text as clean_text (lines 19-55) leaves it: not empty, no
\* whitespace at either end, single spaces inside a line, no space next to
\* a line break, at most one blank line in a row
IsCleaned(s) ==
    /\ s # <<>>
    /\ strip(s) = s
    /\ \A i \in 1..(Len(s) - 1) : ~(s[i] = SP /\ IsSpace(s[i + 1]))
    /\ \A i \in 1..(Len(s) - 1) : ~(s[i] = NL /\ s[i + 1] = SP)
    /\ \A i \in 1..(Len(s) - 2) : ~(s[i] = NL /\ s[i + 1] = NL /\ s[i + 2] = NL)

\* the page before the page under test
PrevPages == {<<>>, <<Word(1, TRUE)>>, <<Word(2, TRUE), NL, Word(1, TRUE)>>}

paper == [name |-> "paper.pdf", length |-> 9]
notes == [name |-> "notes.pdf", length |-> 9]

\* the chunks the index may hold, each with its distance to the question
Pool ==
    {[doc |-> Doc("A", "x", 771, paper, 1, 1), score |-> 30],
     [doc |-> Doc("A", "y", 771, paper, 2, 1), score |-> 50],
     [doc |-> Doc("B", "x", 771, paper, 3, 1), score |-> 10],
     [doc |-> Doc("C", "x", 771, notes, 1, 2), score |-> 60],
     [doc |-> Doc("D", "x", 771, paper, 4, 1), score |-> 70],
     [doc |-> Doc("E", "x", 300, notes, 12, 2), score |-> 90],
     [doc |-> Doc("F", "x", 771, paper, 5, 1), score |-> 120],
     [doc |-> Doc("G", "x", 771, paper, 5, 1), score |-> 80]}

Stores == {S \in SUBSET Pool : Cardinality(S) <= MaxStore}

\* the pdfs table: document 1 of user 1, private, completed or still being
\* processed; document 2 of user 2, private or public
PdfTables ==
    {{[id |-> 1, user_id |-> 1, visibility |-> "private", processing_status |-> "completed"],
      [id |-> 2, user_id |-> 2, visibility |-> v, processing_status |-> "completed"]} :
        v \in {"private", "public"}}
    \cup {{[id |-> 1, user_id |-> 1, visibility |-> "private", processing_status |-> "processing"],
            [id |-> 2, user_id |-> 2, visibility |-> "public", processing_status |-> "completed"]}}

Users == {[id |-> 1, role |-> "user"], [id |-> 3, role |-> "user"], [id |-> 9, role |-> "admin"]}

\* a question, as the lengths of its whitespace-separated words
Questions == {<<2, 5>>, <<6, 3, 4>>}

\* the lists the three strategies can leave in all_results: the i-th
\* candidate has the content key of its position, which repeats after
\* RETRIEVAL_K + 1 positions, and one of two distances
MergeInputs ==
    UNION {{[i \in 1..n |->
                [doc |-> Doc(((i - 1) % (RETRIEVAL_K + 1)) + 1, "x", 771, paper, 1, 1),
                 score |-> scores[i]]] :
               scores \in [1..n -> {10, 50}]} :
           n \in 0..MaxMerged}

\* queries and result lists for rerank_results: the i-th result is chunk i,
\* with one of three contents and one of two distances
RerankQueries == {<<>>, <<"alpha">>, <<"alpha", "beta">>}

RerankInputs ==
    UNION {{[i \in 1..n |-> [doc |-> [id |-> i, page_content |-> found[i].page_content],
                             score |-> found[i].score]] :
               found \in [1..n -> [page_content : {<<"alpha", "beta">>, <<"alpha", "gamma">>,
                                                   <<"gamma">>},
                                   score : {20, 40}]]} :
           n \in 0..MaxReranked}

\* the distances of the chunks to a keyword or to the reworded question
\* differ from those to the question by one of these amounts
Shifts == {0 - MaxShift, 0, MaxShift}

\* ------------------------------------------------------------------- state
VARIABLES
    text, prev_page, self, pc, run, chunks, doc_chunks, legacy_chunks,  \* chunking
    vector_store, chain, pdfs, current_user, store, question,
    qpc, scope, retrieval, results, filtered_results, all_results, strategies_used,
    ranked_results, context, llm_calls, response, query_logs,   \* querying
    pdf_chunks, indexed, files, next_id, processing_tasks, tasks,
    crashes, cleanup_done, startup_ids, loop_tasks, scheduling, \* processing
    reranked, full_text, sections                    \* functions called alone

chunk_vars == <<text, prev_page, self, pc, run, chunks, doc_chunks, legacy_chunks>>
query_env == <<vector_store, chain, pdfs, current_user, store, question>>
query_vars == <<qpc, scope, retrieval, results, filtered_results, all_results,
                strategies_used, ranked_results, context, llm_calls, response,
                query_logs>>
pipe_vars == <<pdf_chunks, indexed, files, next_id, processing_tasks, tasks,
               crashes, cleanup_done, startup_ids, loop_tasks, scheduling>>
fn_vars == <<reranked, full_text, sections>>
vars == <<chunk_vars, query_env, query_vars, pipe_vars, fn_vars>>

page_texts == IF prev_page = <<>> THEN <<[text |-> text, page |-> 1]>>
              ELSE <<[text |-> prev_page, page |-> 1], [text |-> text, page |-> 2]>>

\* accessible_pdf_ids of the request, once lines 114-123 or 289-299 have run
NoScope == [computed |-> FALSE, ids |-> {}]

NoResponse == [kind |-> "none", sources |-> <<>>, confidence |-> [num |-> 0, den |-> 1]]

ChunkIdle ==
    /\ text = <<>>
    /\ prev_page = <<>>
    /\ self = [chunk_size |-> 800, chunk_overlap |-> 200, min_chunk_length |-> 100]
    /\ pc = "idle"
    /\ run = LoopInit
    /\ chunks = <<>>
    /\ doc_chunks = <<>>
    /\ legacy_chunks = <<>>

QueryStart ==
    /\ qpc = "idle"
    /\ scope = NoScope
    /\ retrieval = "none"
    /\ results = <<>>
    /\ filtered_results = <<>>
    /\ all_results = <<>>
    /\ strategies_used = <<>>
    /\ ranked_results = <<>>
    /\ context = <<>>
    /\ llm_calls = <<>>
    /\ response = NoResponse
    /\ query_logs = <<>>

\* a task slot of processing_executor with no task in it
NoTask == [pc |-> "none", text_chunks |-> 0, page_count |-> 0, tx |-> 0, in_tx |-> FALSE]

\* the event loop is in no call of schedule_pdf_processing: queue holds the
\* ids a running handler still has to schedule, submitted the id that line 140
\* has handed to the executor and line 141 has not recorded yet
NoScheduling == [queue |-> {}, submitted |-> {}]

\* the database of init_database, the index and the upload directory, empty
PipeIdle ==
    /\ pdf_chunks = <<>>
    /\ indexed = <<>>
    /\ files = [d \in 1..MaxDocs |->
                  [chunks |-> 0, pages |-> 0, readable |-> FALSE, on_disk |-> FALSE]]
    /\ next_id = 1
    /\ processing_tasks = {}
    /\ tasks = [d \in 1..MaxDocs |-> NoTask]
    /\ crashes = 0
    /\ cleanup_done = TRUE
    /\ startup_ids = {}
    /\ loop_tasks = {}
    /\ scheduling = NoScheduling

\* no call of rerank_results or _identify_sections
FnIdle ==
    /\ reranked = NotReranked
    /\ full_text = <<>>
    /\ sections = NotIdentified

QueryIdle ==
    /\ PipeIdle
    /\ FnIdle
    /\ vector_store = FALSE
    /\ chain = FALSE
    /\ pdfs = {}
    /\ current_user = [id |-> 1, role |-> "user"]
    /\ store = {}
    /\ question = <<>>
    /\ QueryStart

\* ---------------------------------------------------------------- chunking
Init ==
    /\ text \in Texts
    /\ prev_page \in PrevPages
    /\ self \in Configs
    /\ pc = "input"
    /\ run = LoopInit
    /\ chunks = <<>>
    /\ doc_chunks = <<>>
    /\ legacy_chunks = <<>>
    /\ QueryIdle

\* a call of PDFProcessor._split_text_into_chunks(text)
SplitText ==
    /\ pc = "input"
    /\ prev_page = <<>>
    /\ run' = split_run(text, self)
    /\ chunks' = _split_text_into_chunks(text, self)
    /\ pc' = "split"
    /\ UNCHANGED <<text, prev_page, self, doc_chunks, legacy_chunks, query_env, query_vars, pipe_vars, fn_vars>>

\* a call of PDFProcessor._create_intelligent_chunks on the cleaned pages of
\* a document in which _identify_sections found no sections
CreateChunks ==
    /\ pc = "input"
    /\ IsCleaned(text)
    /\ doc_chunks' = _create_intelligent_chunks(<<>>, page_texts, self)
    /\ pc' = "created"
    /\ UNCHANGED <<text, prev_page, self, run, chunks, legacy_chunks, query_env, query_vars, pipe_vars, fn_vars>>

\* a call of PDFProcessor._split_text_into_chunks(None); the text of the
\* state plays no part in it and is the empty one
SplitNone ==
    /\ pc = "input"
    /\ prev_page = <<>>
    /\ text = <<>>
    /\ LET call == _split_text_into_chunks_arg(None, self) IN
         /\ chunks' = call.chunks
         /\ pc' = IF call.raised THEN "raised" ELSE "split_none"
    /\ UNCHANGED <<text, prev_page, self, run, doc_chunks, legacy_chunks, query_env, query_vars, pipe_vars, fn_vars>>

\* a call of split_text_into_chunks(text, chunk_size, overlap) of pdf/utils.py
SplitLegacy ==
    /\ pc = "input"
    /\ prev_page = <<>>
    /\ legacy_chunks' = split_text_into_chunks(text, self.chunk_size, self.chunk_overlap)
    /\ pc' = "legacy"
    /\ UNCHANGED <<text, prev_page, self, run, chunks, doc_chunks, query_env, query_vars, pipe_vars, fn_vars>>

\* a call of split_text_into_chunks(None, chunk_size, overlap)
SplitLegacyNone ==
    /\ pc = "input"
    /\ prev_page = <<>>
    /\ text = <<>>
    /\ LET call == split_text_into_chunks_arg(None, self.chunk_size, self.chunk_overlap) IN
         /\ legacy_chunks' = call.chunks
         /\ pc' = IF call.raised THEN "raised" ELSE "legacy_none"
    /\ UNCHANGED <<text, prev_page, self, run, chunks, doc_chunks, query_env, query_vars, pipe_vars, fn_vars>>

Next == SplitText \/ CreateChunks \/ SplitNone \/ SplitLegacy \/ SplitLegacyNone

Spec == Init /\ [][Next]_vars

\* ------------------------------------------------- the 2400-character text
\* One paragraph of 2400 characters: a first sentence of 100 characters and
\* 23 slots of 99 characters plus the space before them.  A slot is one
\* sentence of one word ("L"), one sentence of two words ("W") or two
\* sentences of 49 characters ("S"); ScenarioSlots slots vary, from the 7th on.
SlotText(kind) ==
    IF kind = "L" THEN <<SP, Word(99, TRUE)>>
    ELSE IF kind = "W" THEN <<SP, Word(49, FALSE), SP, Word(49, TRUE)>>
    ELSE <<SP, Word(49, TRUE), SP, Word(49, TRUE)>>

RECURSIVE SlotsText(_, _)
SlotsText(kinds, i) ==
    IF i > 23 THEN <<>>
    ELSE SlotText(IF i - 6 \in DOMAIN kinds THEN kinds[i - 6] ELSE "L")
            \o SlotsText(kinds, i + 1)

ScenarioTexts ==
    {<<Word(100, TRUE)>> \o SlotsText(kinds, 1) :
        kinds \in [1..ScenarioSlots -> {"L", "W", "S"}]}

ScenarioInit ==
    /\ text \in ScenarioTexts
    /\ prev_page = <<>>
    /\ self = [chunk_size |-> 1000, chunk_overlap |-> 200, min_chunk_length |-> 100]
    /\ pc = "input"
    /\ run = LoopInit
    /\ chunks = <<>>
    /\ doc_chunks = <<>>
    /\ legacy_chunks = <<>>
    /\ QueryIdle

ScenarioNext == SplitText \/ SplitLegacy

SpecScenario == ScenarioInit /\ [][ScenarioNext]_vars

\* ---------------------------------------------------------------- querying
QueryInit ==
    /\ ChunkIdle
    /\ PipeIdle
    /\ FnIdle
    /\ vector_store \in BOOLEAN
    /\ chain \in BOOLEAN
    /\ pdfs \in PdfTables
    /\ current_user \in Users
    /\ store \in Stores
    /\ question \in Questions
    /\ (~vector_store \/ ~chain) =>
          (store = {} /\ current_user.id = 1 /\ question = <<2, 5>>)
    /\ ~vector_store => ~chain
    /\ QueryStart

Degraded(kind) == [kind |-> kind, sources |-> <<>>, confidence |-> [num |-> 0, den |-> 1]]

\* Retrievals without the manual filter of lines 162-163
Retrievals_unfiltered(ids) ==
    {[path |-> "mmr", results |-> r] :
        r \in max_marginal_relevance_search_with_score(Visible(store, ids),
                                                       RETRIEVAL_K, RETRIEVAL_K * 2)}
    \cup {[path |-> "similarity", results |-> r] :
        r \in similarity_search_with_score(Visible(store, ids), RETRIEVAL_K)}
    \cup {[path |-> "fallback", results |-> r] :
        r \in similarity_search_with_score(store, RETRIEVAL_K)}
    \cup {[path |-> "failed", results |-> <<>>]}

\* lines 135-171: what the retrieval of query_pdfs can come to, for the
\* accessible ids: the primary search (the diversity-aware one when the
\* injected store offers it, the plain one otherwise), or after its failure
\* the unfiltered search filtered by hand, or the failure of both
Retrievals(ids) ==
    {[path |-> "mmr", results |-> r] :
        r \in max_marginal_relevance_search_with_score(Visible(store, ids),
                                                       RETRIEVAL_K, RETRIEVAL_K * 2)}
    \cup {[path |-> "similarity", results |-> r] :
        r \in similarity_search_with_score(Visible(store, ids), RETRIEVAL_K)}
    \cup {[path |-> "fallback",
           results |-> SelectSeq(r, LAMBDA x : x.doc.metadata.pdf_id \in ids)] :
        r \in similarity_search_with_score(store, RETRIEVAL_K)}
    \cup {[path |-> "failed", results |-> <<>>]}

\* lines 201-218: the call of the chain and, when it raises, the one call of
\* the llm with a plain prompt over the first 2000 characters of the context
Syntheses(length) ==
    {<<[via |-> "chain", context_len |-> length, ok |-> TRUE]>>,
     <<[via |-> "chain", context_len |-> length, ok |-> FALSE],
       [via |-> "llm", context_len |-> Min(2000, length), ok |-> TRUE]>>,
     <<[via |-> "chain", context_len |-> length, ok |-> FALSE],
       [via |-> "llm", context_len |-> Min(2000, length), ok |-> FALSE]>>}

\* lines 83-272
query_pdfs ==
    /\ qpc = "idle"
    /\ qpc' = "query_pdfs"
    /\ UNCHANGED <<chunk_vars, query_env, pipe_vars, fn_vars, all_results, strategies_used,
                   ranked_results>>
    /\ IF ~vector_store
       THEN /\ response' = Degraded("not_initialized")
            /\ UNCHANGED <<scope, retrieval, results, filtered_results, context, llm_calls, query_logs>>
       ELSE IF ~chain
       THEN /\ response' = Degraded("no_llm")
            /\ UNCHANGED <<scope, retrieval, results, filtered_results, context, llm_calls, query_logs>>
       ELSE \E selected \in BOOLEAN :
            IF ~selected
            THEN \* the SELECT of lines 114-121 raises: the handler of line 260
                 /\ response' = Degraded("error")
                 /\ UNCHANGED <<scope, retrieval, results, filtered_results, context, llm_calls, query_logs>>
            ELSE
            LET ids == accessible_pdf_ids(pdfs, current_user) IN
            IF ids = {}
            THEN /\ response' = Degraded("no_pdfs")
                 /\ scope' = [computed |-> TRUE, ids |-> ids]
                 /\ UNCHANGED <<retrieval, results, filtered_results, context, llm_calls, query_logs>>
            ELSE \E found \in Retrievals(ids) :
                 /\ scope' = [computed |-> TRUE, ids |-> ids]
                 /\ retrieval' = found.path
                 /\ results' = found.results
                 /\ IF found.path = "failed"
                    THEN /\ response' = Degraded("search_failed")
                         /\ UNCHANGED <<filtered_results, context, llm_calls, query_logs>>
                    ELSE IF found.results = <<>>
                    THEN /\ response' = Degraded("no_results")
                         /\ UNCHANGED <<filtered_results, context, llm_calls, query_logs>>
                    ELSE /\ filtered_results' = threshold_filter(found.results)
                         /\ context' = prepare_context(filtered_results', max_context_length)
                         /\ \E calls \in Syntheses(context_len(context')) :
                              /\ llm_calls' = calls
                              /\ IF ~calls[Len(calls)].ok
                                 THEN /\ response' = Degraded("llm_failed")
                                      /\ UNCHANGED query_logs
                                 ELSE /\ response' =
                                           [kind |-> "answer",
                                            sources |-> extract_sources(
                                                           FirstN(filtered_results', 5), <<>>, {}),
                                            confidence |-> confidence_of(filtered_results')]
                                      /\ \E logged \in BOOLEAN :
                                           query_logs' =
                                               IF logged
                                               THEN Append(query_logs,
                                                           [user_id |-> current_user.id,
                                                            sources |-> response'.sources])
                                               ELSE query_logs

\* lines 312-351: what one strategy's search can return: the k nearest
\* accessible chunks at the distances of that strategy's query text
StrategySearch(ids, k) ==
    UNION {similarity_search_with_score(Shifted(Visible(store, ids), sh), k) : sh \in Shifts}

\* lines 326-327
RECURSIVE important_keywords(_)
important_keywords(words) ==
    IF words = <<>> THEN <<>>
    ELSE IF Head(words) > 3 THEN <<Head(words)>> \o important_keywords(Tail(words))
    ELSE important_keywords(Tail(words))

\* lines 329-336: the searches for n keywords, each of which may raise; what
\* was pooled before the failing search stays pooled
RECURSIVE KeywordRuns(_, _)
KeywordRuns(ids, n) ==
    IF n = 0 THEN {[results |-> <<>>, completed |-> TRUE]}
    ELSE {[results |-> <<>>, completed |-> FALSE]}
         \cup {[results |-> r \o rest.results, completed |-> rest.completed] :
                  r \in StrategySearch(ids, 2), rest \in KeywordRuns(ids, n - 1)}

\* a strategy of one search: it raises or returns
SingleRuns(searches) ==
    {[results |-> <<>>, completed |-> FALSE]}
    \cup {[results |-> r, completed |-> TRUE] : r \in searches}

\* lines 274-397
advanced_query ==
    /\ qpc = "idle"
    /\ qpc' = "advanced_query"
    /\ UNCHANGED <<chunk_vars, query_env, pipe_vars, fn_vars, retrieval, results, filtered_results,
                   query_logs>>
    /\ IF ~vector_store \/ ~chain
       THEN /\ response' = [kind |-> "http_500"]
            /\ UNCHANGED <<scope, all_results, strategies_used, ranked_results, context, llm_calls>>
       ELSE \E selected \in BOOLEAN :
            IF ~selected
            THEN \* the SELECT of lines 289-296 raises: the try has no handler
                 /\ response' = [kind |-> "raised"]
                 /\ UNCHANGED <<scope, all_results, strategies_used, ranked_results, context, llm_calls>>
            ELSE
            LET ids == accessible_pdf_ids(pdfs, current_user) IN
            IF ids = {}
            THEN /\ response' = [kind |-> "no_pdfs", sources |-> <<>>,
                                 strategies_used |-> <<>>]
                 /\ scope' = [computed |-> TRUE, ids |-> ids]
                 /\ UNCHANGED <<all_results, strategies_used, ranked_results, context, llm_calls>>
            ELSE \E direct \in SingleRuns(similarity_search_with_score(Visible(store, ids), 5)),
                    keyword \in KeywordRuns(ids, Len(FirstN(important_keywords(question), 3))),
                    semantic \in SingleRuns(StrategySearch(ids, 3)) :
                 /\ scope' = [computed |-> TRUE, ids |-> ids]
                 /\ all_results' = direct.results \o keyword.results \o semantic.results
                 /\ strategies_used' =
                        (IF direct.completed THEN <<"direct_similarity">> ELSE <<>>)
                        \o (IF keyword.completed THEN <<"keyword_expansion">> ELSE <<>>)
                        \o (IF semantic.completed THEN <<"semantic_expansion">> ELSE <<>>)
                 /\ ranked_results' = rank_results(all_results')
                 /\ IF ranked_results' = <<>>
                    THEN /\ response' = [kind |-> "no_results", sources |-> <<>>,
                                         strategies_used |-> strategies_used']
                         /\ UNCHANGED <<context, llm_calls>>
                    ELSE /\ context' = prepare_context(ranked_results', 4000)
                         /\ \E generated \in BOOLEAN :
                              /\ llm_calls' = <<[via |-> "chain",
                                                 context_len |-> context_len(context'),
                                                 ok |-> generated]>>
                              /\ response' =
                                     IF generated
                                     THEN [kind |-> "answer",
                                           sources |-> advanced_sources(ranked_results'),
                                           strategies_used |-> strategies_used']
                                     ELSE [kind |-> "raised"]

QueryNext == query_pdfs \/ advanced_query

SpecQuery == QueryInit /\ [][QueryNext]_vars

\* ----------------------------------------------- the merge and the re-ranking
RankingInit ==
    /\ ChunkIdle
    /\ PipeIdle
    /\ full_text = <<>>
    /\ sections = NotIdentified
    /\ reranked = NotReranked
    /\ vector_store = FALSE
    /\ chain = FALSE
    /\ pdfs = {}
    /\ current_user = [id |-> 1, role |-> "user"]
    /\ store = {}
    /\ scope = NoScope
    /\ retrieval = "none"
    /\ filtered_results = <<>>
    /\ strategies_used = <<>>
    /\ ranked_results = <<>>
    /\ context = <<>>
    /\ llm_calls = <<>>
    /\ response = NoResponse
    /\ query_logs = <<>>
    /\ \/ /\ qpc = "merge"
          /\ all_results \in MergeInputs
          /\ results = <<>>
          /\ question = <<>>
       \/ /\ qpc = "rerank"
          /\ all_results = <<>>
          /\ results \in RerankInputs
          /\ question \in RerankQueries

\* lines 353-361 of advanced_query on the pooled results
MergeResults ==
    /\ qpc = "merge"
    /\ ranked_results' = rank_results(all_results)
    /\ qpc' = "merged"
    /\ UNCHANGED <<chunk_vars, query_env, pipe_vars, fn_vars, scope, retrieval, results,
                   filtered_results, all_results, strategies_used, context, llm_calls,
                   response, query_logs>>

\* a call of rerank_results(question, results)
RerankResults ==
    /\ qpc = "rerank"
    /\ reranked' = rerank_results(question, results)
    /\ qpc' = "reranked"
    /\ UNCHANGED <<chunk_vars, query_env, pipe_vars, full_text, sections, scope, retrieval,
                   results, filtered_results, all_results, strategies_used, ranked_results,
                   context, llm_calls, response, query_logs>>

RankingNext == MergeResults \/ RerankResults

SpecRanking == RankingInit /\ [][RankingNext]_vars

\* ------------------------------------------------------ section identification
\* the lines of a cleaned page: up to MaxLines lines, each a plain line, a
\* heading or a heading that cites "[Page 1]"
PageLines ==
    UNION {[1..n -> {TextLine, Heading(0), Heading(1)}] : n \in 0..MaxLines}

\* the documents that reach _create_intelligent_chunks: at least one page
\* has text (lines 97-99)
FullTexts ==
    {full_text_lines(cleaned, 1) :
        cleaned \in {c \in [1..MaxPages -> PageLines] : \E p \in 1..MaxPages : c[p] # <<>>}}

SectionsInit ==
    /\ ChunkIdle
    /\ PipeIdle
    /\ reranked = NotReranked
    /\ vector_store = FALSE
    /\ chain = FALSE
    /\ pdfs = {}
    /\ current_user = [id |-> 1, role |-> "user"]
    /\ store = {}
    /\ question = <<>>
    /\ QueryStart
    /\ sections = NotIdentified
    /\ full_text \in FullTexts

\* line 117: sections = self._identify_sections(full_text)
IdentifySections ==
    /\ ~sections.called
    /\ sections' = [called |-> TRUE, value |-> _identify_sections(full_text)]
    /\ UNCHANGED <<chunk_vars, query_env, query_vars, pipe_vars, reranked, full_text>>

SectionsNext == IdentifySections

SpecSections == SectionsInit /\ [][SectionsNext]_vars

\* -------------------------------------- processing (pdf/routes.py, database.py)
\* add_texts is called with batches of this many chunks
batch_size == 10

\* get_db_connection opens every connection with sqlite3.connect and sets no
\* pragma: SQLite leaves foreign-key enforcement off on such a connection,
\* so a declared ON DELETE CASCADE does nothing
foreign_keys == FALSE

\* the rows (pdf_id, chunk_index) of the chunks first..last of document d
RECURSIVE ChunkRows(_, _, _)
ChunkRows(d, first, last) ==
    IF first > last THEN <<>>
    ELSE <<[pdf_id |-> d, chunk_index |-> first]>> \o ChunkRows(d, first + 1, last)

RowExists(d) == \E r \in pdfs : r.id = d

\* the processing state of document d in a pdfs table
StatusOf(table, d) ==
    IF \E r \in table : r.id = d
    THEN (CHOOSE r \in table : r.id = d).processing_status
    ELSE "absent"

\* UPDATE pdfs SET processing_status = status WHERE id = d
UpdateStatus(table, d, status) ==
    {IF r.id = d THEN [r EXCEPT !.processing_status = status] ELSE r : r \in table}

\* UPDATE pdfs SET page_count = page_count WHERE id = d; the column is NULL
\* (the empty sequence) until then
UpdatePageCount(table, d, page_count) ==
    {IF r.id = d THEN [r EXCEPT !.page_count = <<page_count>>] ELSE r : r \in table}

\* the files a client sends: one that pdfplumber cannot open, and files of
\* one page from which file_chunks chunks are extracted (none when the page
\* has no usable text)
UploadedFiles ==
    {[chunks |-> 0, pages |-> 0, readable |-> FALSE, on_disk |-> TRUE]}
        \cup {[chunks |-> file_chunks, pages |-> 1, readable |-> TRUE, on_disk |-> TRUE] :
                 file_chunks \in 0..MaxChunks}

\* the document whose worker holds SQLite's write lock in an open transaction
LockHolders == {d \in 1..MaxDocs : tasks[d].in_tx}
LockFree == LockHolders = {}

pipe_rest == <<chunk_vars, query_vars, fn_vars, vector_store, chain, current_user, store,
              question>>

\* the handlers are coroutines of one event loop: a handler runs only when
\* no other handler is inside schedule_pdf_processing
EventLoopFree == scheduling = NoScheduling

\* lines 134-137: the documents of ids that schedule_pdf_processing submits
Scheduled(ids) == {d \in ids : d \notin processing_tasks}

\* cursor.lastrowid after the INSERT with the ids of pdfs reused (a table
\* declared without AUTOINCREMENT gives the largest id plus one)
lastrowid_reused ==
    IF pdfs = {} THEN 1
    ELSE (CHOOSE i \in {r.id : r \in pdfs} : \A r \in pdfs : r.id <= i) + 1

\* cursor.lastrowid after the INSERT INTO pdfs: id is declared INTEGER PRIMARY
\* KEY AUTOINCREMENT, so the id of a deleted row is never given again
lastrowid == next_id

\* lines 144-222: the row is inserted in state 'processing' and committed,
\* then the handler awaits schedule_pdf_processing
upload_pdf ==
    /\ next_id <= MaxDocs
    /\ EventLoopFree
    /\ LockFree
    /\ \E user \in {u \in Users : u.role # "admin"}, file \in UploadedFiles :
         /\ files' = [files EXCEPT ![lastrowid] = file]
         /\ pdfs' = pdfs \cup {[id |-> lastrowid, user_id |-> user.id,
                                visibility |-> "private",
                                processing_status |-> "processing",
                                page_count |-> <<>>]}
    /\ scheduling' = [queue |-> {lastrowid}, submitted |-> {}]
    /\ next_id' = next_id + 1
    /\ UNCHANGED <<pdf_chunks, indexed, processing_tasks, tasks, loop_tasks, crashes,
                   cleanup_done, startup_ids, pipe_rest>>

\* admin/routes.py lines 79-150: the row is inserted as in upload_pdf, with
\* visibility 'public', and the scheduling is left to a task of the event loop
\* (asyncio.create_task, line 131)
process_single_pdf_upload ==
    /\ next_id <= MaxDocs
    /\ EventLoopFree
    /\ LockFree
    /\ \E user \in {u \in Users : u.role = "admin"}, file \in UploadedFiles :
         /\ files' = [files EXCEPT ![lastrowid] = file]
         /\ pdfs' = pdfs \cup {[id |-> lastrowid, user_id |-> user.id,
                                visibility |-> "public",
                                processing_status |-> "processing",
                                page_count |-> <<>>]}
    /\ loop_tasks' = loop_tasks \cup {lastrowid}
    /\ next_id' = next_id + 1
    /\ UNCHANGED <<pdf_chunks, indexed, processing_tasks, tasks, scheduling, crashes,
                   cleanup_done, startup_ids, pipe_rest>>

\* the event loop starts a task made by asyncio.create_task
run_task ==
    /\ EventLoopFree
    /\ \E d \in loop_tasks :
         /\ loop_tasks' = loop_tasks \ {d}
         /\ scheduling' = [queue |-> {d}, submitted |-> {}]
    /\ UNCHANGED <<pdfs, pdf_chunks, indexed, files, next_id, processing_tasks, tasks,
                   crashes, cleanup_done, startup_ids, pipe_rest>>

\* lines 132-140: the call returns when the id has an entry in
\* processing_tasks, otherwise the task is handed to the executor
schedule_pdf_processing ==
    /\ scheduling.submitted = {}
    /\ \E d \in scheduling.queue :
         IF Scheduled({d}) = {}
         THEN /\ scheduling' = [scheduling EXCEPT !.queue = @ \ {d}]
              /\ UNCHANGED tasks
         ELSE /\ scheduling' = [queue |-> scheduling.queue \ {d}, submitted |-> {d}]
              /\ tasks' = [tasks EXCEPT ![d] = [NoTask EXCEPT !.pc = "start"]]
    /\ UNCHANGED <<pdfs, pdf_chunks, indexed, files, next_id, processing_tasks,
                   loop_tasks, crashes, cleanup_done, startup_ids, pipe_rest>>

\* line 141: the future is recorded, after the executor has got the task
record_future ==
    /\ \E d \in scheduling.submitted :
         /\ processing_tasks' = processing_tasks \cup {d}
         /\ scheduling' = [scheduling EXCEPT !.submitted = {}]
    /\ UNCHANGED <<pdfs, pdf_chunks, indexed, files, next_id, tasks, loop_tasks,
                   crashes, cleanup_done, startup_ids, pipe_rest>>

\* process_pdf_in_thread lines 34-44: extract_text_from_pdf returns the
\* chunks of the file and its page count; no chunk and 0 pages when the file
\* is not on disk or when opening it raises (processor.py lines 65-67 and
\* 108-110)
extract_text(d) ==
    /\ tasks[d].pc = "start"
    /\ tasks' = [tasks EXCEPT ![d].pc = "extracted",
                              ![d].text_chunks = IF files[d].on_disk /\ files[d].readable
                                                 THEN files[d].chunks ELSE 0,
                              ![d].page_count = IF files[d].on_disk
                                                THEN files[d].pages ELSE 0]
    /\ UNCHANGED <<pdfs, pdf_chunks, indexed, files, next_id, processing_tasks,
                   crashes, cleanup_done, startup_ids, loop_tasks, scheduling, pipe_rest>>

\* the end of every path of process_pdf_in_thread (lines 126-130)
finally(d) ==
    /\ processing_tasks' = processing_tasks \ {d}
    /\ tasks' = [tasks EXCEPT ![d] = NoTask]

\* lines 46-56, and lines 110-125 when the UPDATE finds the database locked:
\* no text was extracted
mark_empty(d) ==
    /\ tasks[d].pc = "extracted"
    /\ tasks[d].text_chunks = 0
    /\ \/ /\ LockFree
          /\ pdfs' = UpdatePageCount(UpdateStatus(pdfs, d, "completed"), d, 0)
       \/ /\ ~LockFree
          /\ \E handled \in BOOLEAN :
               pdfs' = IF handled THEN UpdateStatus(pdfs, d, "completed") ELSE pdfs
    /\ finally(d)
    /\ UNCHANGED <<pdf_chunks, indexed, files, next_id, crashes, cleanup_done,
                   startup_ids, loop_tasks, scheduling, pipe_rest>>

\* lines 58-73: the page count is updated and the chunks are inserted, in a
\* transaction that stays open; when a statement raises after inserted rows,
\* the handler of lines 110-125 marks the document completed and commits
\* what the transaction holds
insert_chunks(d) ==
    /\ tasks[d].pc = "extracted"
    /\ tasks[d].text_chunks > 0
    /\ \/ /\ LockFree
          /\ ~(foreign_keys /\ ~RowExists(d))
          /\ tasks' = [tasks EXCEPT ![d].pc = "inserted",
                                    ![d].tx = tasks[d].text_chunks,
                                    ![d].in_tx = TRUE]
          /\ UNCHANGED <<pdfs, pdf_chunks, processing_tasks>>
       \/ /\ LockFree
          /\ \E inserted \in 0..(tasks[d].text_chunks - 1) :
               /\ foreign_keys /\ ~RowExists(d) => inserted = 0
               /\ pdf_chunks' = pdf_chunks \o ChunkRows(d, 0, inserted - 1)
          /\ pdfs' = UpdatePageCount(UpdateStatus(pdfs, d, "completed"), d,
                                     tasks[d].page_count)
          /\ finally(d)
       \/ /\ ~LockFree
          /\ \E handled \in BOOLEAN :
               pdfs' = IF handled THEN UpdateStatus(pdfs, d, "completed") ELSE pdfs
          /\ finally(d)
          /\ UNCHANGED pdf_chunks
    /\ UNCHANGED <<indexed, files, next_id, crashes, cleanup_done, startup_ids,
                   loop_tasks, scheduling, pipe_rest>>

\* lines 84-92: the batches of add_texts, each of which may fail alone
RECURSIVE AddedTexts(_, _, _)
AddedTexts(d, first, count) ==
    IF first >= count THEN {<<>>}
    ELSE LET batch == ChunkRows(d, first, Min(first + batch_size, count) - 1) IN
         {added \o rest : added \in {<<>>, batch},
                          rest \in AddedTexts(d, first + batch_size, count)}

\* lines 75-96: the chunks go to the vector index, outside the transaction
add_texts(d) ==
    /\ tasks[d].pc = "inserted"
    /\ tasks' = [tasks EXCEPT ![d].pc = "indexed"]
    /\ IF vector_store
       THEN \E added \in AddedTexts(d, 0, tasks[d].text_chunks) : indexed' = indexed \o added
       ELSE UNCHANGED indexed
    /\ UNCHANGED <<pdfs, pdf_chunks, files, next_id, processing_tasks, crashes,
                   cleanup_done, startup_ids, loop_tasks, scheduling, pipe_rest>>

\* lines 99-108: the document is marked completed and the transaction commits
commit(d) ==
    /\ tasks[d].pc = "indexed"
    /\ pdfs' = UpdatePageCount(UpdateStatus(pdfs, d, "completed"), d, tasks[d].page_count)
    /\ pdf_chunks' = pdf_chunks \o ChunkRows(d, 0, tasks[d].tx - 1)
    /\ finally(d)
    /\ UNCHANGED <<indexed, files, next_id, crashes, cleanup_done, startup_ids,
                   loop_tasks, scheduling, pipe_rest>>

\* lines 26-130, one step of the task of some document
process_pdf_in_thread ==
    \E d \in 1..MaxDocs :
        extract_text(d) \/ mark_empty(d) \/ insert_chunks(d) \/ add_texts(d) \/ commit(d)

\* lines 260-294: the file is removed, then the row is deleted; when the
\* database is locked the DELETE raises and the row stays
delete_pdf ==
    \E d \in 1..MaxDocs, user \in Users :
        /\ EventLoopFree
        /\ \E r \in pdfs : r.id = d /\ (user.role = "admin" \/ r.user_id = user.id)
        /\ files' = [files EXCEPT ![d].on_disk = FALSE]
        /\ IF LockFree
           THEN /\ pdfs' = {r \in pdfs : r.id # d}
                /\ pdf_chunks' = IF foreign_keys
                                 THEN SelectSeq(pdf_chunks, LAMBDA c : c.pdf_id # d)
                                 ELSE pdf_chunks
                /\ processing_tasks' = processing_tasks \ {d}
           ELSE UNCHANGED <<pdfs, pdf_chunks, processing_tasks>>
        /\ UNCHANGED <<indexed, next_id, tasks, crashes, cleanup_done, startup_ids,
                       loop_tasks, scheduling, pipe_rest>>

\* the server process dies and is started again: its threads, their open
\* transactions and the tasks of its event loop are gone, the database, the
\* index and the files stay
Crash ==
    /\ crashes < MaxCrashes
    /\ crashes' = crashes + 1
    /\ tasks' = [d \in 1..MaxDocs |-> NoTask]
    /\ processing_tasks' = {}
    /\ cleanup_done' = FALSE
    /\ startup_ids' = {r.id : r \in pdfs}
    /\ loop_tasks' = {}
    /\ scheduling' = NoScheduling
    /\ UNCHANGED <<pdfs, pdf_chunks, indexed, files, next_id, pipe_rest>>

\* lines 322-350: 3 seconds after the start, the documents still in state
\* 'processing' that were uploaded more than 2 minutes ago are scheduled again
cleanup_stuck_pdfs ==
    /\ ~cleanup_done
    /\ EventLoopFree
    /\ cleanup_done' = TRUE
    /\ \E stuck_pdfs \in SUBSET {r.id : r \in {x \in pdfs : /\ x.processing_status = "processing"
                                                           /\ x.id \in startup_ids}} :
         scheduling' = [queue |-> stuck_pdfs, submitted |-> {}]
    /\ UNCHANGED <<pdfs, pdf_chunks, indexed, files, next_id, processing_tasks, tasks,
                   loop_tasks, crashes, startup_ids, pipe_rest>>

PipeInit ==
    /\ ChunkIdle
    /\ QueryStart
    /\ PipeIdle
    /\ FnIdle
    /\ vector_store \in BOOLEAN
    /\ chain = vector_store
    /\ pdfs = {}
    /\ current_user = [id |-> 1, role |-> "user"]
    /\ store = {}
    /\ question = <<>>

PipeNext ==
    \/ upload_pdf
    \/ process_single_pdf_upload
    \/ run_task
    \/ schedule_pdf_processing
    \/ record_future
    \/ process_pdf_in_thread
    \/ delete_pdf
    \/ Crash
    \/ cleanup_stuck_pdfs

SpecPipeline == PipeInit /\ [][PipeNext]_vars

\* the executor runs every task it was given, the event loop every coroutine
\* it holds; uploads, deletions and crashes may or may not happen
SpecPipelineLive ==
    /\ PipeInit
    /\ [][PipeNext]_vars
    /\ \A d \in 1..MaxDocs :
          WF_vars(extract_text(d) \/ mark_empty(d) \/ insert_chunks(d)
                    \/ add_texts(d) \/ commit(d))
    /\ WF_vars(run_task)
    /\ WF_vars(schedule_pdf_processing)
    /\ WF_vars(record_future)
    /\ WF_vars(cleanup_stuck_pdfs)

\* ------------------- the other entry points (pdf/processor.py, rag_backend.py)
\* PDFProcessor.process_pdf, lines 306-396, called for a document that waits
\* in state 'processing': the steps of process_pdf_in_thread without the
\* vector index, in one synchronous call
process_pdf ==
    \E d \in 1..MaxDocs :
        /\ StatusOf(pdfs, d) = "processing"
        /\ LET text_chunks == IF files[d].on_disk /\ files[d].readable
                              THEN files[d].chunks ELSE 0
               page_count == IF files[d].on_disk THEN files[d].pages ELSE 0
           IN IF ~LockFree
              THEN /\ \E handled \in BOOLEAN :
                        pdfs' = IF handled THEN UpdateStatus(pdfs, d, "completed") ELSE pdfs
                   /\ UNCHANGED pdf_chunks
              ELSE IF text_chunks = 0
              THEN /\ pdfs' = UpdatePageCount(UpdateStatus(pdfs, d, "completed"), d, 0)
                   /\ UNCHANGED pdf_chunks
              ELSE /\ \E inserted \in 0..text_chunks :
                        pdf_chunks' = pdf_chunks \o ChunkRows(d, 0, inserted - 1)
                   /\ pdfs' = UpdatePageCount(UpdateStatus(pdfs, d, "completed"), d, page_count)
        /\ UNCHANGED <<indexed, files, next_id, processing_tasks, tasks, crashes,
                       cleanup_done, startup_ids, loop_tasks, scheduling, pipe_rest>>

\* rag_backend.py lines 343-421: upload_pdf of the single-file server; the row
\* is inserted in state 'processing' and process_pdf_async is added to the
\* background tasks with the bytes of the file
rag_upload_pdf ==
    /\ next_id <= MaxDocs
    /\ EventLoopFree
    /\ \E user \in Users, file \in UploadedFiles :
         /\ files' = [files EXCEPT ![lastrowid] = file]
         /\ pdfs' = pdfs \cup {[id |-> lastrowid, user_id |-> user.id,
                                visibility |-> "private",
                                processing_status |-> "processing",
                                page_count |-> <<>>]}
    /\ tasks' = [tasks EXCEPT ![lastrowid] = [NoTask EXCEPT !.pc = "async"]]
    /\ next_id' = next_id + 1
    /\ UNCHANGED <<pdf_chunks, indexed, processing_tasks, loop_tasks, scheduling, crashes,
                   cleanup_done, startup_ids, pipe_rest>>

\* rag_backend.py lines 658-726: the extraction raises for a file that cannot
\* be opened (lines 615-617), no chunk raises in line 665, add_documents may
\* raise; every exception ends in the handler of lines 719-726, which writes
\* 'failed'
process_pdf_async ==
    \E d \in 1..MaxDocs :
        /\ tasks[d].pc = "async"
        /\ tasks' = [tasks EXCEPT ![d] = NoTask]
        /\ IF ~files[d].readable \/ files[d].chunks = 0
           THEN /\ pdfs' = UpdateStatus(pdfs, d, "failed")
                /\ UNCHANGED <<pdf_chunks, indexed>>
           ELSE \/ /\ pdfs' = UpdateStatus(pdfs, d, "failed")
                   /\ UNCHANGED <<pdf_chunks, indexed>>
                \/ /\ vector_store
                   /\ indexed' = indexed \o ChunkRows(d, 0, files[d].chunks - 1)
                   /\ \/ /\ pdf_chunks' = pdf_chunks \o ChunkRows(d, 0, files[d].chunks - 1)
                         /\ pdfs' = UpdatePageCount(UpdateStatus(pdfs, d, "completed"),
                                                    d, files[d].pages)
                      \/ /\ pdfs' = UpdateStatus(pdfs, d, "failed")
                         /\ UNCHANGED pdf_chunks
        /\ UNCHANGED <<files, next_id, processing_tasks, loop_tasks, scheduling, crashes,
                       cleanup_done, startup_ids, pipe_rest>>

EntryNext ==
    \/ upload_pdf
    \/ schedule_pdf_processing
    \/ record_future
    \/ process_pdf_in_thread
    \/ process_pdf
    \/ rag_upload_pdf
    \/ process_pdf_async

SpecEntry == PipeInit /\ [][EntryNext]_vars

\* ---------------------------------------------------------- chunker claims
IsPrefix(a, b) == Len(a) <= Len(b) /\ SubSeq(b, 1, Len(a)) = a
IsSuffix(a, b) == Len(a) <= Len(b) /\ SubSeq(b, Len(b) - Len(a) + 1, Len(b)) = a

\* a chunk that consists of one sentence only
IsSingleSentence(c) == Len(split_sentences(strip(c))) = 1

\* C1: every chunk returned by _split_text_into_chunks has length <=
\* chunk_size, unless it is a single sentence that alone is longer than
\* chunk_size
C1_ChunkSizeBound ==
    pc = "split" =>
        \A i \in 1..Len(chunks) :
            \/ len(chunks[i]) <= self.chunk_size
            \/ IsSingleSentence(chunks[i]) /\ len(strip(chunks[i])) > self.chunk_size

\* C2: no chunk returned by _split_text_into_chunks, and no chunk emitted by
\* _create_intelligent_chunks in page-based fallback, is shorter than
\* min_chunk_length
C2_MinLengthFloor ==
    /\ pc = "split" =>
          \A i \in 1..Len(chunks) : len(chunks[i]) >= self.min_chunk_length
    /\ pc = "created" =>
          \A i \in 1..Len(doc_chunks) :
              len(doc_chunks[i].content) >= self.min_chunk_length

\* C3: with chunk_overlap > 0, a chunk started by a paragraph-boundary flush
\* begins with a non-empty run of the trailing sentences of the chunk flushed
\* before it, and that shared text is at most chunk_overlap long
C3_OverlapProperty ==
    (pc = "split" /\ self.chunk_overlap > 0) =>
        \A j \in 1..Len(run.boundaries) :
            LET b == run.boundaries[j]
                shared == strip(b.overlap_text)
            IN (b.flushed /\ b.at + 1 <= Len(chunks)) =>
                  /\ shared # <<>>
                  /\ len(shared) <= self.chunk_overlap
                  /\ IsPrefix(shared, chunks[b.at + 1])
                  /\ IsSuffix(split_sentences(shared), split_sentences(chunks[b.at]))

\* C9: a text with len(text) <= chunk_size is returned as [text], unchanged,
\* when len(text) > min_chunk_length, and as [] otherwise
C9_ShortTextWhole ==
    (pc = "split" /\ len(text) <= self.chunk_size) =>
        chunks = IF len(text) > self.min_chunk_length THEN <<text>> ELSE <<>>

\* a short text with surrounding whitespace came back as the only chunk
C9_Witness ==
    /\ pc = "split"
    /\ len(text) <= self.chunk_size
    /\ len(text) > self.min_chunk_length
    /\ strip(text) # text
    /\ chunks = <<text>>

\* the text is one paragraph of sentences of at most 100 characters, set
\* apart by single spaces
IsScenarioText(s) ==
    /\ len(s) = 2400
    /\ Len(split_nn(s, <<>>)) = 1
    /\ strip(s) = s
    /\ \A i \in 1..(Len(s) - 1) : ~(IsSpace(s[i]) /\ IsSpace(s[i + 1]))
    /\ \A i \in 1..Len(s) : s[i] # NL
    /\ \A i \in 1..Len(split_sentences(s)) : len(split_sentences(s)[i]) <= 100

IsScenario ==
    /\ IsScenarioText(text)
    /\ self = [chunk_size |-> 1000, chunk_overlap |-> 200, min_chunk_length |-> 100]

\* chunk b begins with the last k sentences of chunk a, for some k >= 1
SharesTrailingSentences(a, b) ==
    LET sa == split_sentences(a)
        sb == split_sentences(b)
    IN \E k \in 1..Min(Len(sa), Len(sb)) :
          SubSeq(sa, Len(sa) - k + 1, Len(sa)) = SubSeq(sb, 1, k)

RECURSIVE SentencesOf(_)
SentencesOf(cs) ==
    IF cs = <<>> THEN <<>> ELSE split_sentences(Head(cs)) \o SentencesOf(Tail(cs))

\* C8 as stated: the 2400-character paragraph gives exactly 3 chunks of at
\* most 1000 characters, the 2nd and the 3rd beginning with trailing
\* sentences of the chunk before
C8_ScenarioOverlap ==
    (pc = "split" /\ IsScenario) =>
        /\ Len(chunks) = 3
        /\ \A i \in 1..Len(chunks) : len(chunks[i]) <= 1000
        /\ \A i \in 2..Len(chunks) : SharesTrailingSentences(chunks[i - 1], chunks[i])

\* C8, amended: _split_text_into_chunks gives exactly 3 chunks of at most
\* 1000 characters that do not overlap: their sentences, in order, are the
\* sentences of the text, each once
C8_ScenarioNoOverlap ==
    (pc = "split" /\ IsScenario) =>
        /\ Len(chunks) = 3
        /\ \A i \in 1..Len(chunks) : len(chunks[i]) <= 1000
        /\ SentencesOf(chunks) = split_sentences(text)

\* the scenario text was split in 3 and the first chunk ends between the two
\* short sentences of a slot
C8_Witness ==
    /\ pc = "split"
    /\ IsScenario
    /\ Len(chunks) = 3
    /\ len(chunks[1]) = 950

\* C13: chunking never raises: for every text, None, the empty text and
\* whitespace-only texts included, _split_text_into_chunks and
\* split_text_into_chunks return a chunk list, the empty one for None and for
\* the empty text
C13_ChunkingNeverRaises ==
    /\ pc # "raised"
    /\ pc = "split_none" => chunks = <<>>
    /\ pc = "legacy_none" => legacy_chunks = <<>>
    /\ (pc = "split" /\ text = <<>>) => chunks = <<>>
    /\ (pc = "legacy" /\ text = <<>>) => legacy_chunks = <<>>

\* ------------------------------------------------------------ query claims
Cutoff == Scale - SIMILARITY_THRESHOLD
AllAboveCutoff(r) == \A i \in 1..Len(r) : r[i].score > Cutoff

LowestPerFingerprint(kept, r, fp(_)) ==
    /\ \A i, j \in 1..Len(kept) : i # j => fp(kept[i].doc) # fp(kept[j].doc)
    /\ \A i \in 1..Len(kept) : \A j \in 1..Len(r) :
          fp(r[j].doc) = fp(kept[i].doc) => kept[i].score <= r[j].score

\* C5: after deduplication no two candidates share a fingerprint and the
\* survivor of a fingerprint has the lowest distance of the input candidates
\* with it, in whatever order they arrive: for the merge of advanced_query
\* and for the skip of prepare_context
C5_DedupKeepsLowest ==
    /\ qpc = "advanced_query" =>
          /\ LowestPerFingerprint(ranked_results, all_results, fingerprint200)
          /\ LowestPerFingerprint(context, ranked_results, fingerprint100)
    /\ qpc = "query_pdfs" =>
          LowestPerFingerprint(context, filtered_results, fingerprint100)

\* C6: the context string returned by prepare_context is never longer than
\* max_length
C6_ContextBudget ==
    qpc \in {"query_pdfs", "advanced_query"} => context_len(context) <= max_context_length

\* C10: of 5 retrieved candidates all above the cutoff, exactly the 3 with
\* the lowest distances are passed on, in whatever order they were retrieved
C10_ThreeLowest ==
    (qpc = "query_pdfs" /\ Len(results) = 5 /\ AllAboveCutoff(results)) =>
        /\ Len(filtered_results) = 3
        /\ Range(filtered_results) \subseteq Range(results)
        /\ \A x \in Range(results) \ Range(filtered_results) :
              \A y \in Range(filtered_results) : y.score <= x.score

\* the caller may retrieve from document pdf_id: it is the caller's, or it
\* is public, or the caller is an admin
InScope(pdf_id) ==
    \E row \in pdfs :
        /\ row.id = pdf_id
        /\ \/ current_user.role = "admin"
           \/ row.user_id = current_user.id
           \/ row.visibility = "public"

\* the candidates a query worked with, from retrieval to the context
Candidates ==
    Range(results) \cup Range(filtered_results) \cup Range(all_results)
        \cup Range(ranked_results)
        \cup {[doc |-> context[i].doc, score |-> context[i].score] : i \in 1..Len(context)}

\* the candidates the source list is drawn from
SourceCandidates == IF qpc = "query_pdfs" THEN filtered_results ELSE ranked_results

\* C11: every candidate chunk a query uses for its context or its source
\* list belongs to a document in the caller's access scope, after the
\* filtered search and after the unfiltered fallback search alike
C11_AccessScope ==
    qpc \in {"query_pdfs", "advanced_query"} =>
        /\ \A x \in Candidates :
              /\ x.doc.metadata.pdf_id \in scope.ids
              /\ InScope(x.doc.metadata.pdf_id)
        /\ "sources" \in DOMAIN response =>
              \A i \in 1..Len(response.sources) :
                  \E x \in Range(SourceCandidates) :
                      /\ x.doc.metadata.filename = response.sources[i].filename
                      /\ x.doc.metadata.page = response.sources[i].page
                      /\ InScope(x.doc.metadata.pdf_id)

\* the fallback search ran over an index that holds a chunk outside the
\* scope, and an answer was built from what was left
C11_Witness ==
    /\ qpc = "query_pdfs"
    /\ retrieval = "fallback"
    /\ \E x \in store : x.doc.metadata.pdf_id \notin scope.ids
    /\ context # <<>>
    /\ response.kind = "answer"
    /\ response.sources # <<>>

\* C12 as stated: the access scope is every document of the caller, every
\* public document and, for an admin, every document
C12_AccessScopeAll ==
    scope.computed =>
        scope.ids = {row.id : row \in {r \in pdfs : \/ r.user_id = current_user.id
                                                     \/ r.visibility = "public"
                                                     \/ current_user.role = "admin"}}

\* C12, amended: the access scope is every completed document of the caller,
\* every completed public document and, for an admin, every completed
\* document; it holds no private document of another user for a caller who is
\* not an admin, and it holds every completed document of the caller
C12_AccessScopeCompleted ==
    scope.computed =>
        LET completed == {r \in pdfs : r.processing_status = "completed"}
            own == {r.id : r \in {x \in completed : x.user_id = current_user.id}}
            public == {r.id : r \in {x \in completed : x.visibility = "public"}}
            all == IF current_user.role = "admin" THEN {r.id : r \in completed} ELSE {}
        IN /\ scope.ids = own \cup public \cup all
           /\ current_user.role # "admin" =>
                 \A r \in pdfs : (r.visibility = "private" /\ r.user_id # current_user.id)
                                     => r.id \notin scope.ids
           /\ own \subseteq scope.ids

\* the caller owns a document that is still being processed, and the scope
\* is the public document of another user
C12_Witness ==
    /\ qpc = "query_pdfs"
    /\ scope.computed
    /\ current_user.role # "admin"
    /\ \E r \in pdfs : r.user_id = current_user.id /\ r.processing_status = "processing"
    /\ \E r \in pdfs : r.user_id # current_user.id /\ r.id \in scope.ids
    /\ response.kind = "answer"

\* the results of the runs of a strategy that completed without error
DoneRuns(runs) == {x.results : x \in {y \in runs : y.completed}}

StrategyUsed(name) == \E i \in 1..Len(strategies_used) : strategies_used[i] = name

\* C14: the pooled candidate list of advanced_query is the concatenation of
\* the results of exactly the strategies that completed without error; a
\* strategy that failed, also on its 2nd or 3rd keyword search, has left
\* nothing in the pool
C14_FailedStrategyIsolated ==
    (qpc = "advanced_query" /\ scope.computed /\ scope.ids # {}) =>
        \E direct \in (IF StrategyUsed("direct_similarity")
                        THEN similarity_search_with_score(Visible(store, scope.ids), 5)
                        ELSE {<<>>}),
           keyword \in (IF StrategyUsed("keyword_expansion")
                         THEN DoneRuns(KeywordRuns(scope.ids,
                                  Len(FirstN(important_keywords(question), 3))))
                         ELSE {<<>>}),
           semantic \in (IF StrategyUsed("semantic_expansion")
                          THEN StrategySearch(scope.ids, 3)
                          ELSE {<<>>}) :
            all_results = direct \o keyword \o semantic

\* C15: no query lets an exception through to its caller; a failed answer
\* synthesis is retried exactly once, with the plain prompt over the
\* truncated context, and when the retry fails too the degraded response is
\* returned; for query_pdfs and for advanced_query
C15_NoExceptionOneRetry ==
    qpc \in {"query_pdfs", "advanced_query"} =>
        /\ response.kind # "raised"
        /\ Len(llm_calls) <= 2
        /\ (llm_calls # <<>> /\ ~llm_calls[1].ok) =>
              /\ Len(llm_calls) = 2
              /\ llm_calls[2].via = "llm"
              /\ llm_calls[2].context_len = Min(2000, llm_calls[1].context_len)
              /\ ~llm_calls[2].ok => response = Degraded("llm_failed")

\* C16: every outcome of a query that is not an answer is a response of one
\* shape: an answer text, an empty source list and confidence zero; for
\* query_pdfs and for advanced_query
C16_DegradedShape ==
    (qpc \in {"query_pdfs", "advanced_query"} /\ response.kind # "answer") =>
        /\ DOMAIN response = {"kind", "sources", "confidence"}
        /\ response.sources = <<>>
        /\ response.confidence.num = 0

\* ------------------------------------------------------- processing claims
\* the committed chunk rows of document d
StoredChunks(d) == SelectSeq(pdf_chunks, LAMBDA c : c.pdf_id = d)

\* C17: however often the pipeline has run for a document, no (document,
\* chunk_index) pair is stored more than once in the chunk table and no chunk
\* is present more than once in the vector index
C17_ReprocessingIdempotent ==
    /\ Distinct(pdf_chunks)
    /\ Distinct(indexed)

\* C18: a document whose file holds chunks is in state 'completed' only with
\* the complete chunk list persisted; a failed step commits neither chunks
\* nor the state 'completed'
C18_AtomicCompletion ==
    \A r \in pdfs :
        (r.processing_status = "completed" /\ files[r.id].chunks > 0) =>
            StoredChunks(r.id) = ChunkRows(r.id, 0, files[r.id].chunks - 1)

\* C19: a document is created in state pending, moves only along
\* pending -> processing -> completed | failed, is never created again, and
\* once completed or failed it keeps that state until it is deleted
C19_Lifecycle ==
    [][\A d \in 1..MaxDocs :
          /\ (StatusOf(pdfs, d) = "absent" /\ StatusOf(pdfs', d) # "absent") =>
                (StatusOf(pdfs', d) = "pending" /\ d >= next_id)
          /\ StatusOf(pdfs, d) = "pending" =>
                StatusOf(pdfs', d) \in {"pending", "processing", "absent"}
          /\ StatusOf(pdfs, d) = "processing" =>
                StatusOf(pdfs', d) \in {"processing", "completed", "failed", "absent"}
          /\ StatusOf(pdfs, d) \in {"completed", "failed"} =>
                StatusOf(pdfs', d) \in {StatusOf(pdfs, d), "absent"}]_vars

\* C20: once delete_pdf has succeeded for a document, the chunk table holds
\* no chunk of it, whatever a task still running for it does afterwards
C20_DeleteLeavesNoChunks ==
    \A d \in 1..(next_id - 1) : ~RowExists(d) => StoredChunks(d) = <<>>

\* ------------------------------------------------------- scheduling claims
\* C21: schedule_pdf_processing never hands a task to the executor for a
\* document id whose earlier task is still in flight, so no two worker tasks
\* process the same document at the same time
C21_NoDuplicateTask ==
    [][\A d \in 1..MaxDocs :
          (d \in scheduling'.submitted /\ d \notin scheduling.submitted) =>
              tasks[d].pc = "none"]_vars

\* a task is submitted while the task of a deleted document, whose entry
\* delete_pdf has removed from processing_tasks, is still running
C21_Witness ==
    \E d, e \in 1..MaxDocs :
        /\ d # e
        /\ d < next_id
        /\ ~RowExists(d)
        /\ tasks[d].pc \notin {"none", "start"}
        /\ e \in scheduling.submitted

\* C29: once the worker task of a document has finished and the call of
\* schedule_pdf_processing that submitted it has returned, processing_tasks
\* holds no entry for the document
C29_NoEntryForFinishedTask ==
    \A d \in 1..MaxDocs :
        (tasks[d].pc = "none" /\ d \notin scheduling.submitted) =>
            d \notin processing_tasks

\* C30: a document for which a task was submitted eventually leaves state
\* 'processing' (stated here for the runs in which the server process does
\* not die, where every submitted task is run to its end)
C30_EventuallyLeavesProcessing ==
    \A d \in 1..MaxDocs :
        (tasks[d].pc = "start") ~> (StatusOf(pdfs, d) # "processing" \/ crashes > 0)

\* -------------------------------------------------------- extraction claims
\* the file of document d is on disk and pdfplumber cannot open it
ExtractionRaises(d) == files[d].on_disk /\ ~files[d].readable

\* the file of document d is on disk and readable, and has no usable page
NoUsablePages(d) == files[d].on_disk /\ files[d].readable /\ files[d].chunks = 0

\* what the database holds of a document: state, page count, number of chunks
StoredState(r) == <<r.processing_status, r.page_count, Len(StoredChunks(r.id))>>

\* C23: a document whose extraction raised and a document that was processed
\* with success and has no usable page do not end in the same stored state
C23_CrashDistinguished ==
    \A r1, r2 \in pdfs :
        (/\ ExtractionRaises(r1.id) /\ r1.processing_status # "processing"
         /\ NoUsablePages(r2.id) /\ r2.processing_status # "processing")
            => StoredState(r1) # StoredState(r2)

\* the processing of document d is over: no call of schedule_pdf_processing
\* and no task is under way for it
Ended(d) ==
    /\ tasks[d].pc = "none"
    /\ d \notin scheduling.queue \cup scheduling.submitted

\* C22: a document whose file is read with success and has no usable page is
\* never in state 'failed' and has no stored chunk, and it is in state
\* 'completed' once its processing is over, whichever entry point processed it
C22_EmptyDocumentCompleted ==
    \A r \in pdfs :
        NoUsablePages(r.id) =>
            /\ r.processing_status # "failed"
            /\ StoredChunks(r.id) = <<>>
            /\ Ended(r.id) => r.processing_status = "completed"

\* --------------------------------------------------------- ranking claims
\* the relevance score of an entry of a source list, in hundredths
SourceScore(source) ==
    IF "score" \in DOMAIN source THEN source.score ELSE source.relevance

\* C28: every entry of the source list returned with an answer has a score
\* between 0 and 1 (1 - distance, clamped), and the list has at most 5 entries
C28_SourceScoresClamped ==
    "sources" \in DOMAIN response =>
        /\ Len(response.sources) <= 5
        /\ \A i \in 1..Len(response.sources) :
              /\ 0 <= SourceScore(response.sources[i])
              /\ SourceScore(response.sources[i]) <= Scale

\* the content keys of the pooled candidates, and the lowest distance at
\* which a key occurs among them
ContentKeys == {fingerprint200(c.doc) : c \in Range(all_results)}
BestScore(key) ==
    CHOOSE sc \in {c.score : c \in {x \in Range(all_results) : fingerprint200(x.doc) = key}} :
        \A c \in Range(all_results) : fingerprint200(c.doc) = key => sc <= c.score
RankedKeys == {fingerprint200(ranked_results[i].doc) : i \in 1..Len(ranked_results)}

\* C24: the list ranked by the merge step is in ascending order of distance
\* and holds, once per content key, the RETRIEVAL_K candidates of lowest
\* distance among the deduplicated candidates (all of them when fewer)
C24_MergeOrdered ==
    qpc = "merged" =>
        /\ Sorted(ranked_results)
        /\ Len(ranked_results) = Min(RETRIEVAL_K, Cardinality(ContentKeys))
        /\ Cardinality(RankedKeys) = Len(ranked_results)
        /\ \A i \in 1..Len(ranked_results) :
              /\ ranked_results[i] \in Range(all_results)
              /\ ranked_results[i].score = BestScore(fingerprint200(ranked_results[i].doc))
        /\ \A key \in ContentKeys \ RankedKeys :
              \A i \in 1..Len(ranked_results) : ranked_results[i].score <= BestScore(key)

\* more content keys than RETRIEVAL_K, one of them twice, and the candidate
\* left out is not the last of the pooled list
C24_Witness ==
    /\ qpc = "merged"
    /\ Cardinality(ContentKeys) > RETRIEVAL_K
    /\ Len(all_results) > Cardinality(ContentKeys)
    /\ all_results[1].score # all_results[Len(all_results)].score
    /\ \E key \in ContentKeys \ RankedKeys : key # fingerprint200(all_results[Len(all_results)].doc)

\* the number of words of the question that result i contains
Overlap(i) ==
    Cardinality(WordSet(question) \cap WordSet(results[i].doc.page_content))

\* the place of result i in the re-ranked list
Place(i) == CHOOSE p \in 1..Len(reranked.value) : reranked.value[p].doc = results[i].doc

\* C25: rerank_results returns for every question, and of two results at the
\* same distance the one that contains more words of the question is not
\* ranked after the other
C25_RerankOrder ==
    qpc = "reranked" =>
        /\ ~reranked.raised
        /\ \A i, j \in 1..Len(results) :
              (results[i].score = results[j].score /\ Overlap(i) > Overlap(j)) =>
                  Place(i) < Place(j)

\* --------------------------------------------------------- section claims
\* the page of the last "[Page n]" line before line i of the full text, 1
\* when there is none
RunningPage(i) ==
    LET before == {j \in 1..(i - 1) : full_text[j].kind = "marker"} IN
    IF before = {} THEN 1
    ELSE full_text[CHOOSE j \in before : \A k \in before : k <= j].n

\* C26: every section that _identify_sections returns for a heading has the
\* page of the most recent "[Page n]" line before the heading
C26_SectionPageInherited ==
    sections.called =>
        \A k \in 1..Len(sections.value) :
            sections.value[k].line > 0 =>
                sections.value[k].page = RunningPage(sections.value[k].line)

\* --------------------------------------------------------- coverage claims
\* s is a contiguous part of c
Contains(c, s) == \E i \in 0..(Len(c) - Len(s)) : SubSeq(c, i + 1, i + Len(s)) = s

\* the paragraphs of the input, stripped, in input order; a paragraph longer
\* than chunk_size counts as its sentences
RECURSIVE UnitsOf(_, _)
UnitsOf(paragraphs, chunk_size) ==
    IF paragraphs = <<>> THEN <<>>
    ELSE LET para == strip(Head(paragraphs)) IN
         (IF para = <<>> THEN <<>>
          ELSE IF len(para) > chunk_size THEN split_sentences(para)
          ELSE <<para>>) \o UnitsOf(Tail(paragraphs), chunk_size)

InputUnits == UnitsOf(split_nn(text, <<>>), self.chunk_size)

\* how many of the leading units lie, in input order, inside the chunks from
\* chunk c on (each unit in the first chunk that can hold it)
RECURSIVE PlacedInOrder(_, _, _)
PlacedInOrder(units, cs, c) ==
    IF units = <<>> THEN 0
    ELSE LET at == {i \in c..Len(cs) : Contains(cs[i], Head(units))} IN
         IF at = {} THEN 0
         ELSE 1 + PlacedInOrder(Tail(units), cs,
                                CHOOSE i \in at : \A j \in at : i <= j)

\* the text that was not returned because it is not longer than
\* min_chunk_length: the whole short input, or the final accumulator
DroppedText ==
    IF len(text) <= self.chunk_size
    THEN IF len(text) <= self.min_chunk_length THEN text ELSE <<>>
    ELSE IF len(run.current_chunk) <= self.min_chunk_length THEN run.current_chunk
    ELSE <<>>

\* C27: every non-empty paragraph and every sentence of the input lies, in
\* input order, inside a returned chunk, except those held by a final
\* accumulator (or a whole short input) not longer than min_chunk_length
C27_OnlyShortTailLost ==
    pc = "split" =>
        LET placed == PlacedInOrder(InputUnits, chunks, 1) IN
        \A i \in (placed + 1)..Len(InputUnits) : Contains(DroppedText, InputUnits[i])

\* a text longer than chunk_size came back as two chunks or more, with a
\* final accumulator dropped for its length
C27_Witness ==
    /\ pc = "split"
    /\ len(text) > self.chunk_size
    /\ Len(chunks) >= 2
    /\ Len(InputUnits) >= 3
    /\ DroppedText # <<>>
    /\ PlacedInOrder(InputUnits, chunks, 1) < Len(InputUnits)

====
